---- MODULE Spec2Model ----
(***************************************************************************)
(* Model of LineerHelper's main.py: the element encoder (format_element),  *)
(* matrix generation (generate_matrix), the register expression evaluator  *)
(* (evaluate_equation), the identity-size prompt (call_register) and the   *)
(* feedback message queue (display_next_message).                          *)
(*                                                                         *)
(* Python strings are sequences of one-character strings.                  *)
(***************************************************************************)
EXTENDS Integers, Sequences, FiniteSets, TLC

VARIABLES
    registers,      \* the module-level dict `registers`
    message_queue,  \* the module-level Queue `message_queue`
    clipboard,      \* the Tk clipboard contents
    popups,         \* the stack of open messagebox.showinfo popups
    timers,         \* pending root.after(100, display_next_message) callbacks
    ops,            \* user operations performed so far
    last,           \* record of the last handler invocation
    element,        \* encoder specification: the token given to format_element
    encoded         \* encoder specification: what format_element returned

\* ------------------------------------------------------------------ bounds
\* longest element token of the encoder specification, counted in pieces
MaxPieces == 5
\* user operations (button presses, Return keys) in one run
MaxOps == 2

\* ---------------------------------------------------------- string helpers
Digits == {"0", "1", "2", "3", "4", "5", "6", "7", "8", "9"}

S_sqrt == <<"s", "q", "r", "t">>
S_div == <<"d", "i", "v">>
S_RT == <<"@", "R", "T", "{">>
S_DIV == <<"@", "D", "I", "V", "{">>

\* s[i..] begins with p
StartsAt(s, p, i) ==
    /\ i >= 1
    /\ i + Len(p) - 1 <= Len(s)
    /\ \A k \in 1..Len(p) : s[i + k - 1] = p[k]

\* Python `p in s`
Contains(s, p) == \E i \in 1..(Len(s) + 1) : StartsAt(s, p, i)

\* index of the first occurrence of p in s (0 when there is none)
Find(s, p) ==
    IF Contains(s, p)
    THEN CHOOSE i \in 1..(Len(s) + 1) :
            StartsAt(s, p, i) /\ \A j \in 1..(i - 1) : ~StartsAt(s, p, j)
    ELSE 0

\* a split on the first occurrence only: s.split(p, 1)
Split_firstOnly(s, p) ==
    IF ~Contains(s, p)
    THEN <<s>>
    ELSE LET i == Find(s, p)
         IN <<SubSeq(s, 1, i - 1), SubSeq(s, i + Len(p), Len(s))>>

\* Python s.split(p): split on EVERY occurrence of the separator
RECURSIVE Split(_, _)
Split(s, p) ==
    IF ~Contains(s, p)
    THEN <<s>>
    ELSE LET i == Find(s, p)
         IN <<SubSeq(s, 1, i - 1)>> \o Split(SubSeq(s, i + Len(p), Len(s)), p)

\* length of the run of digits starting at s[i]
RECURSIVE DigitRun(_, _)
DigitRun(s, i) ==
    IF i <= Len(s) /\ s[i] \in Digits THEN 1 + DigitRun(s, i + 1) ELSE 0

\* re.sub(r'sqrt(\d+)', r'@RT{\1}', s): every non-overlapping match, left to
\* right, the digit run taken greedily
RECURSIVE ReSubSqrt(_)
ReSubSqrt(s) ==
    IF s = <<>> THEN <<>>
    ELSE IF StartsAt(s, S_sqrt, 1) /\ DigitRun(s, 5) > 0
         THEN LET n == DigitRun(s, 5)
              IN S_RT \o SubSeq(s, 5, 4 + n) \o <<"}">>
                   \o ReSubSqrt(SubSeq(s, 5 + n, Len(s)))
         ELSE <<Head(s)>> \o ReSubSqrt(Tail(s))

\* ------------------------------------------------------------ the encoder
\* a guard that also wants both parts non-empty
DivGuard_nonEmpty(parts) ==
    Len(parts) = 2 /\ parts[1] # <<>> /\ parts[2] # <<>>

\* the guard on the number of parts of the div split
DivGuard(parts) == Len(parts) = 2

RECURSIVE format_element(_)
format_element(el) ==
    LET e1 == IF Contains(el, S_sqrt) THEN ReSubSqrt(el) ELSE el
    IN IF Contains(e1, S_div) /\ DivGuard(Split(e1, S_div))
       THEN LET parts == Split(e1, S_div)
            IN S_DIV \o format_element(parts[1]) \o <<";">>
                 \o format_element(parts[2]) \o <<"}">>
       ELSE e1

\* ----------------------------------------------------------------- values
\* A Python value: None, a number, a numpy array (plain ndarray or the Matrix
\* subclass) or a raised exception.  data is row-major.
NoneVal == [kind |-> "None", shape |-> <<>>, data |-> <<>>, exc |-> ""]
Scalar(n) == [kind |-> "scalar", shape |-> <<>>, data |-> <<n>>, exc |-> ""]
Array(k, sh, d) == [kind |-> k, shape |-> sh, data |-> d, exc |-> ""]
Raised(e) == [kind |-> "Error", shape |-> <<>>, data |-> <<>>, exc |-> e]

IsError(v) == v.kind = "Error"
IsArray(v) == v.kind \in {"Matrix", "ndarray"}

RegisterNames == {"A", "B", "C", "D", "I"}

\* registers = {'A': None, 'B': None, 'C': None, 'D': None, 'I': 1}
InitRegisters == [n \in RegisterNames |-> IF n = "I" THEN Scalar(1) ELSE NoneVal]

\* np.eye(n)
Eye(n) ==
    Array("ndarray", <<n, n>>,
          [k \in 1..(n * n) |-> IF (k - 1) \div n = (k - 1) % n THEN 1 ELSE 0])

\* parse_matrix: np.array(elements).reshape((rows, cols)).view(Matrix);
\* reshape raises ValueError on a negative dimension here (len = rows*cols)
parse_matrix(elements, rows, cols) ==
    IF rows < 0 \/ cols < 0
    THEN Raised("ValueError")
    ELSE Array("Matrix", <<rows, cols>>, elements)

\* ------------------------------------------------------------ conversions
RECURSIVE DigitsValue(_)
DigitsValue(s) ==
    IF s = <<>> THEN 0
    ELSE 10 * DigitsValue(SubSeq(s, 1, Len(s) - 1))
         + (CHOOSE d \in 0..9 : ToString(d) = s[Len(s)])

AllDigits(s) == s # <<>> /\ \A k \in 1..Len(s) : s[k] \in Digits

\* int(text): an optional sign and decimal digits; anything else ValueError
IntOk(s) ==
    \/ AllDigits(s)
    \/ (s # <<>> /\ s[1] = "-" /\ AllDigits(Tail(s)))

IntValue(s) == IF s[1] = "-" THEN 0 - DigitsValue(Tail(s)) ELSE DigitsValue(s)

\* float(text) on the tokens of this model: decimal digits only
FloatOk(s) == AllDigits(s)

FloatValue(s) == DigitsValue(s)

RECURSIVE IntStr(_)
IntStr(n) ==
    IF n < 10 THEN <<ToString(n)>> ELSE IntStr(n \div 10) \o <<ToString(n % 10)>>

\* str(np.float64(n)) of a whole number
FloatStr(n) == IntStr(n) \o <<".", "0">>

LowerCase ==
    <<"a", "b", "c", "d", "e", "f", "g", "h", "i", "j", "k", "l", "m",
      "n", "o", "p", "q", "r", "s", "t", "u", "v", "w", "x", "y", "z">>

UpperCase ==
    <<"A", "B", "C", "D", "E", "F", "G", "H", "I", "J", "K", "L", "M",
      "N", "O", "P", "Q", "R", "S", "T", "U", "V", "W", "X", "Y", "Z">>

\* the character of `to` at the place c has in `from`; c itself otherwise
MapChar(c, from, to) ==
    IF \E k \in 1..Len(from) : from[k] = c
    THEN to[CHOOSE k \in 1..Len(from) : from[k] = c]
    ELSE c

\* str.upper() / str.lower()
Upper(s) == [k \in 1..Len(s) |-> MapChar(s[k], LowerCase, UpperCase)]
Lower(s) == [k \in 1..Len(s) |-> MapChar(s[k], UpperCase, LowerCase)]

\* s.replace(c, rep) for a one-character c
RECURSIVE Replace(_, _, _)
Replace(s, c, rep) ==
    IF s = <<>> THEN <<>>
    ELSE (IF Head(s) = c THEN rep ELSE <<Head(s)>>) \o Replace(Tail(s), c, rep)

\* str.split(): split on runs of spaces, no empty parts
RECURSIVE SplitWS(_)
SplitWS(s) ==
    IF s = <<>> THEN <<>>
    ELSE IF Head(s) = " " THEN SplitWS(Tail(s))
    ELSE LET i == Find(s, <<" ">>)
         IN IF i = 0 THEN <<s>>
            ELSE <<SubSeq(s, 1, i - 1)>> \o SplitWS(SubSeq(s, i + 1, Len(s)))

\* leading and trailing spaces removed (eval ignores them)
RECURSIVE Strip(_)
Strip(s) ==
    IF s = <<>> THEN <<>>
    ELSE IF Head(s) = " " THEN Strip(Tail(s))
    ELSE IF s[Len(s)] = " " THEN Strip(SubSeq(s, 1, Len(s) - 1))
    ELSE s

\* ---------------------------------------------------- Matrix.__str__
\* `rows, cols = self.shape` raises ValueError unless the array is 2-D
StrFails(v) == v.kind = "Matrix" /\ Len(v.shape) # 2

RECURSIVE RowStr(_, _, _)
RowStr(v, i, j) ==
    LET cols == v.shape[2]
        cell == FloatStr(v.data[(i - 1) * cols + j])
    IN IF j > cols THEN <<>>
       ELSE IF j = cols THEN cell
       ELSE cell \o <<";">> \o RowStr(v, i, j + 1)

RECURSIVE RowsStr(_, _)
RowsStr(v, i) ==
    LET rows == v.shape[1]
    IN IF i > rows THEN <<>>
       ELSE IF i = rows THEN RowStr(v, i, 1)
       ELSE RowStr(v, i, 1) \o <<"}", ";", "{">> \o RowsStr(v, i + 1)

Matrix_str(v) ==
    <<"@", "M", "A", "T", "X", "{", "{">> \o RowsStr(v, 1) \o <<"}", "}">>

\* ------------------------------------------------------ numpy arithmetic
Pad(sh) ==
    IF Len(sh) = 2 THEN sh ELSE IF Len(sh) = 1 THEN <<1, sh[1]>> ELSE <<1, 1>>

Size(v) == LET p == Pad(v.shape) IN p[1] * p[2]

DimsAgree(a, b) == a = b \/ a = 1 \/ b = 1

BroadDim(a, b) == IF a = 1 THEN b ELSE a

\* element (i, j) of v broadcast to a larger shape
Item(v, i, j) ==
    LET p == Pad(v.shape)
        r == IF p[1] = 1 THEN 1 ELSE i
        c == IF p[2] = 1 THEN 1 ELSE j
    IN v.data[(r - 1) * p[2] + c]

\* a + b with numpy broadcasting; the Matrix subclass wins over ndarray
Add(a, b) ==
    LET pa == Pad(a.shape)
        pb == Pad(b.shape)
        R == BroadDim(pa[1], pb[1])
        C == BroadDim(pa[2], pb[2])
        nd == IF Len(a.shape) > Len(b.shape) THEN Len(a.shape) ELSE Len(b.shape)
        sh == IF nd = 2 THEN <<R, C>> ELSE IF nd = 1 THEN <<C>> ELSE <<>>
        k == IF "Matrix" \in {a.kind, b.kind} THEN "Matrix"
             ELSE IF "ndarray" \in {a.kind, b.kind} THEN "ndarray"
             ELSE "scalar"
    IN IF a.kind = "None" \/ b.kind = "None"
       THEN \* None against an array runs numpy's object loop once per element
            IF IsArray(a) /\ Size(a) = 0 THEN a
            ELSE IF IsArray(b) /\ Size(b) = 0 THEN b
            ELSE Raised("TypeError")
       ELSE IF ~(DimsAgree(pa[1], pb[1]) /\ DimsAgree(pa[2], pb[2]))
       THEN Raised("ValueError")
       ELSE [kind |-> k, shape |-> sh, exc |-> "",
             data |-> [n \in 1..(R * C) |->
                          Item(a, ((n - 1) \div C) + 1, ((n - 1) % C) + 1)
                          + Item(b, ((n - 1) \div C) + 1, ((n - 1) % C) + 1)]]

\* v[0]
Index0(v) ==
    IF ~IsArray(v) THEN Raised("TypeError")
    ELSE IF v.shape[1] = 0 THEN Raised("IndexError")
    ELSE IF Len(v.shape) = 1 THEN Scalar(v.data[1])
    ELSE Array(v.kind, <<v.shape[2]>>, SubSeq(v.data, 1, v.shape[2]))

\* ------------------------------------------------------------------ eval
\* the text that replaces a register letter: registers['A']
Deref(n) ==
    <<"r", "e", "g", "i", "s", "t", "e", "r", "s", "[", "'", n, "'", "]">>

S_index0 == <<"[", "0", "]">>

Identifiers == {"x", "y", "z"}

EndsWith(s, p) == Len(s) >= Len(p) /\ StartsAt(s, p, Len(s) - Len(p) + 1)

LastPlus(s) == CHOOSE i \in 1..Len(s) : s[i] = "+" /\ \A j \in (i + 1)..Len(s) : s[j] # "+"

IsNumber(s) == AllDigits(s) /\ (Len(s) = 1 \/ s[1] # "0")

\* the grammar of the expressions this model evaluates:
\*   expr ::= expr "+" atom | atom
\*   atom ::= number | name | registers['X'] | atom "[0]"
RECURSIVE AtomOk(_)
AtomOk(s) ==
    \/ IsNumber(s)
    \/ (Len(s) = 1 /\ s[1] \in Identifiers)
    \/ \E n \in RegisterNames : s = Deref(n)
    \/ (EndsWith(s, S_index0) /\ AtomOk(SubSeq(s, 1, Len(s) - 3)))

RECURSIVE WellFormed(_)
WellFormed(s) ==
    LET t == Strip(s)
    IN IF Contains(t, <<"+">>)
       THEN LET i == LastPlus(t)
            IN WellFormed(SubSeq(t, 1, i - 1)) /\ AtomOk(Strip(SubSeq(t, i + 1, Len(t))))
       ELSE AtomOk(t)

RECURSIVE AtomValue(_, _)
AtomValue(s, regs) ==
    IF IsNumber(s) THEN Scalar(DigitsValue(s))
    ELSE IF Len(s) = 1 /\ s[1] \in Identifiers THEN Raised("NameError")
    ELSE IF \E n \in RegisterNames : s = Deref(n)
    THEN regs[CHOOSE n \in RegisterNames : s = Deref(n)]
    ELSE LET v == AtomValue(SubSeq(s, 1, Len(s) - 3), regs)
         IN IF IsError(v) THEN v ELSE Index0(v)

RECURSIVE ExprValue(_, _)
ExprValue(s, regs) ==
    LET t == Strip(s)
    IN IF Contains(t, <<"+">>)
       THEN LET i == LastPlus(t)
                l == ExprValue(SubSeq(t, 1, i - 1), regs)
                r == AtomValue(Strip(SubSeq(t, i + 1, Len(t))), regs)
            IN IF IsError(l) THEN l ELSE IF IsError(r) THEN r ELSE Add(l, r)
       ELSE AtomValue(t, regs)

\* eval(equation, context): the value, or the exception raised
Eval(s, regs) == IF WellFormed(s) THEN ExprValue(s, regs) ELSE Raised("SyntaxError")

\* -------------------------------------------------------------- messages
\* A feedback message: its kind, the register it names, the value or the
\* exception text it carries.
Msg(t, r, v, e) == [type |-> t, reg |-> r, value |-> v, exc |-> e]

InvalidRegisterMsg == Msg("InvalidRegister", "", NoneVal, "")
MismatchMsg == Msg("Mismatch", "", NoneVal, "")
ValidIntegersMsg == Msg("ValidIntegers", "", NoneVal, "")
StoredMsg(r) == Msg("Stored", r, NoneVal, "")
CopiedMsg(m) == Msg("Copied", "", m, "")
ResultMsg(v) == Msg("Result", "", v, "")
InvalidEquationMsg(e) == Msg("InvalidEquation", "", NoneVal, e)

\* what a handler invocation did
Outcome(regs, clip, msgs, display, how) ==
    [registers |-> regs, clipboard |-> clip, msgs |-> msgs,
     display |-> display, outcome |-> how]

NoReg == ""
S_reg == <<"r", "e", "g">>

\* ------------------------------------------------------- generate_matrix
\* reg_name != 'reg' or reg_letter not in ['A', 'B', 'C', 'D'] (negated)
DirectiveOk(reg_name, reg_letter) ==
    /\ reg_name = S_reg
    /\ reg_letter \in {<<"A">>, <<"B">>, <<"C">>, <<"D">>}

\* [float(format_element(el)) for el in matrix_elements]
ConvertOk(els) == \A k \in 1..Len(els) : FloatOk(format_element(els[k]))

Convert(els) == [k \in 1..Len(els) |-> FloatValue(format_element(els[k]))]

\* a failed build that nevertheless touches the target register
GenerateTail_storeOnError(regs, clip, reg_letter, matrix) ==
    IF IsError(matrix)
    THEN Outcome(IF reg_letter # NoReg
                 THEN [regs EXCEPT ![reg_letter] = NoneVal] ELSE regs,
                 clip, <<ValidIntegersMsg>>, FALSE, "error")
    ELSE Outcome(IF reg_letter # NoReg
                 THEN [regs EXCEPT ![reg_letter] = matrix] ELSE regs,
                 Matrix_str(matrix),
                 (IF reg_letter # NoReg THEN <<StoredMsg(reg_letter)>> ELSE <<>>)
                     \o <<CopiedMsg(matrix)>>,
                 TRUE, "ok")

\* from the built matrix on: store, copy to the clipboard, report, display;
\* a ValueError of the build goes to the except clause
GenerateTail(regs, clip, reg_letter, matrix) ==
    IF IsError(matrix)
    THEN Outcome(regs, clip, <<ValidIntegersMsg>>, FALSE, "error")
    ELSE Outcome(IF reg_letter # NoReg
                 THEN [regs EXCEPT ![reg_letter] = matrix] ELSE regs,
                 Matrix_str(matrix),
                 (IF reg_letter # NoReg THEN <<StoredMsg(reg_letter)>> ELSE <<>>)
                     \o <<CopiedMsg(matrix)>>,
                 TRUE, "ok")

\* the size check and the build, after the directive was taken off
GenerateBody(regs, clip, els, rows, cols, reg_letter) ==
    IF Len(els) # rows * cols
    THEN Outcome(regs, clip, <<MismatchMsg>>, FALSE, "error")
    ELSE GenerateTail(regs, clip, reg_letter,
                      IF ConvertOk(els)
                      THEN parse_matrix(Convert(els), rows, cols)
                      ELSE Raised("ValueError"))

generate_matrix(regs, clip, rowText, colText, entry) ==
    IF ~(IntOk(rowText) /\ IntOk(colText))
    THEN Outcome(regs, clip, <<ValidIntegersMsg>>, FALSE, "error")
    ELSE LET rows == IntValue(rowText)
             cols == IntValue(colText)
             els == SplitWS(entry)
             n == Len(els)
         IN IF n > rows * cols
            THEN IF n < 2
                 THEN \* matrix_elements[-2]: IndexError, not caught
                      Outcome(regs, clip, <<>>, FALSE, "raised")
                 ELSE IF ~DirectiveOk(Lower(els[n - 1]), Upper(els[n]))
                 THEN Outcome(regs, clip, <<InvalidRegisterMsg>>, FALSE, "error")
                 ELSE GenerateBody(regs, clip, SubSeq(els, 1, n - 2), rows, cols,
                                   Upper(els[n])[1])
            ELSE GenerateBody(regs, clip, els, rows, cols, NoReg)

\* ----------------------------------------------------- evaluate_equation
\* equation, reg_x = equation.split("reg"): the unpacking needs two parts
UnpackOk(parts) == Len(parts) = 2

\* reg_x.upper().replace(" ", "")
Candidate(rem) == Replace(Upper(rem), " ", <<>>)

\* the five equation.replace(...) calls, in order
Substitute(eq) ==
    LET a == Replace(eq, "A", Deref("A"))
        b == Replace(a, "B", Deref("B"))
        c == Replace(b, "C", Deref("C"))
        d == Replace(c, "D", Deref("D"))
    IN Replace(d, "I", Deref("I"))

\* a store that ignores the target
StoreResult_wrongTarget(regs, reg_x, result) ==
    IF reg_x # NoReg THEN [regs EXCEPT !["A"] = result] ELSE regs

\* if reg_x: registers[reg_x] = result
StoreResult(regs, reg_x, result) ==
    IF reg_x # NoReg THEN [regs EXCEPT ![reg_x] = result] ELSE regs

evaluate_equation(regs, clip, eq) ==
    LET hasReg == Contains(eq, S_reg)
        parts == Split(eq, S_reg)
    IN IF hasReg /\ ~UnpackOk(parts)
       THEN \* ValueError of the unpacking, raised outside the try block
            Outcome(regs, clip, <<>>, FALSE, "raised")
       ELSE LET equation == IF hasReg THEN parts[1] ELSE eq
                cand == IF hasReg THEN Candidate(parts[2]) ELSE <<>>
                valid == Len(cand) = 1 /\ cand[1] \in RegisterNames
                reg_x == IF hasReg /\ valid THEN cand[1] ELSE NoReg
                m1 == IF hasReg /\ ~valid THEN <<InvalidRegisterMsg>> ELSE <<>>
                result == Eval(Substitute(equation), regs)
                m2 == IF reg_x # NoReg THEN <<StoredMsg(reg_x)>> ELSE <<>>
            IN IF IsError(result)
               THEN Outcome(regs, clip, m1 \o <<InvalidEquationMsg(result.exc)>>,
                            TRUE, "error")
               ELSE IF StrFails(result)
               THEN \* f"Result:\n{result}" raises after the store
                    Outcome(StoreResult(regs, reg_x, result), clip,
                            m1 \o m2 \o <<InvalidEquationMsg("ValueError")>>,
                            TRUE, "error")
               ELSE Outcome(StoreResult(regs, reg_x, result), clip,
                            m1 \o m2 \o <<ResultMsg(result)>>, TRUE, "ok")

\* ---------------------------------------------- call_register.submit_size
\* int(...) parses and np.eye(...) accepts the size
SizeOk(text) == IntOk(text) /\ IntValue(text) >= 0

submit_size(regs, text) ==
    IF SizeOk(text)
    THEN [regs EXCEPT !["I"] = Eye(IntValue(text))]
    ELSE regs

\* ------------------------------------------------- display_next_message
\* the queue and the popups after one call
display_next_message(queue, open) ==
    IF queue # <<>>
    THEN [queue |-> Tail(queue), popups |-> Append(open, Head(queue))]
    ELSE [queue |-> queue, popups |-> open]

\* ------------------------------------------------- encoder specification
Pieces == {<<"1">>, <<"2">>, <<"3">>, S_sqrt, S_div}

RECURSIVE Concat(_)
Concat(ps) == IF ps = <<>> THEN <<>> ELSE Head(ps) \o Concat(Tail(ps))

Tokens == {Concat(ps) : ps \in UNION {[1..n -> Pieces] : n \in 1..MaxPieces}}

NotEncoded == <<"?">>

vars == <<registers, message_queue, clipboard, popups, timers, ops, last,
          element, encoded>>

NoCall ==
    [op |-> "none", outcome |-> "none", pre |-> InitRegisters,
     preclip |-> <<>>, msgs |-> <<>>, input |-> <<>>]

InitApp ==
    /\ registers = InitRegisters
    /\ message_queue = <<>>
    /\ clipboard = <<>>
    /\ popups = <<>>
    /\ timers = 0
    /\ ops = 0
    /\ last = NoCall

InitEnc ==
    /\ InitApp
    /\ element \in Tokens
    /\ encoded = NotEncoded

EncodeCell ==
    /\ encoded = NotEncoded
    /\ encoded' = format_element(element)
    /\ UNCHANGED <<element, registers, message_queue, clipboard, popups,
                   timers, ops, last>>

NextEnc == EncodeCell

SpecEnc == InitEnc /\ [][NextEnc]_vars

\* ---------------------------------------------------- the application
\* what the user types
Join(words) == Concat([k \in 1..Len(words) |->
                          IF k = 1 THEN words[k] ELSE <<" ">> \o words[k]])

RowTexts == {<<"x">>, <<"0">>, <<"1">>, <<"2">>}
ColTexts == {<<"1">>, <<"2">>}
EntryTexts ==
    {Join(ws) : ws \in {<<>>,
                        <<<<"1">>>>,
                        <<<<"1">>, <<"2">>>>,
                        <<<<"s", "q", "r", "t", "4">>, S_reg, <<"a">>>>,
                        <<<<"2">>, S_reg, <<"a">>>>,
                        <<<<"1">>, <<"2">>, <<"R", "e", "g">>, <<"B">>>>,
                        <<<<"1">>, S_reg, <<"I">>>>,
                        <<<<"1">>, <<"x">>, <<"A">>>>}}

LeftTexts ==
    {<<>>, <<"2">>, <<"A">>, <<"I">>, <<"z">>, <<"A", "+", "A">>,
     <<"A", "+", "B">>, <<"A", "[", "0", "]">>}
SuffixTexts ==
    {<<>>, <<"r", "e", "g", " ", "B">>, <<" ", "r", "e", "g", "i">>,
     <<"r", "e", "g", " ", "Z">>,
     <<"r", "e", "g", " ", "A", "r", "e", "g", " ", "B">>}
EquationTexts == {l \o s : l \in LeftTexts, s \in SuffixTexts}

SizeTexts == {<<"x">>, <<"-", "1">>, <<"1">>, <<"2">>}

Init ==
    /\ InitApp
    /\ element = <<>>
    /\ encoded = NotEncoded

\* a handler ran: its effects, then its call of display_next_message
Handle(op, input, res) ==
    LET q == message_queue \o res.msgs
        d == IF res.display
             THEN display_next_message(q, popups)
             ELSE [queue |-> q, popups |-> popups]
    IN /\ registers' = res.registers
       /\ clipboard' = res.clipboard
       /\ message_queue' = d.queue
       /\ popups' = d.popups
       /\ ops' = ops + 1
       /\ last' = [op |-> op, outcome |-> res.outcome, pre |-> registers,
                   preclip |-> clipboard, msgs |-> res.msgs, input |-> input]
       /\ UNCHANGED <<timers, element, encoded>>

\* the main window takes no input while a popup is open
GenerateMatrix ==
    /\ ops < MaxOps
    /\ popups = <<>>
    /\ \E r \in RowTexts, c \in ColTexts, e \in EntryTexts :
          Handle("generate", e, generate_matrix(registers, clipboard, r, c, e))

EvaluateEquation ==
    /\ ops < MaxOps
    /\ popups = <<>>
    /\ \E eq \in EquationTexts :
          Handle("evaluate", eq, evaluate_equation(registers, clipboard, eq))

SubmitSize ==
    /\ ops < MaxOps
    /\ popups = <<>>
    /\ \E t \in SizeTexts :
          Handle("submit_size", t,
                 Outcome(submit_size(registers, t), clipboard, <<>>, FALSE,
                         IF SizeOk(t) THEN "ok" ELSE "error"))

\* the user closes the top popup; showinfo returns and the callback is
\* scheduled: root.after(100, display_next_message)
Dismiss ==
    /\ popups # <<>>
    /\ popups' = SubSeq(popups, 1, Len(popups) - 1)
    /\ timers' = timers + 1
    /\ UNCHANGED <<registers, message_queue, clipboard, ops, last, element, encoded>>

\* a scheduled callback runs display_next_message
TimerFire ==
    /\ timers > 0
    /\ timers' = timers - 1
    /\ LET d == display_next_message(message_queue, popups)
       IN message_queue' = d.queue /\ popups' = d.popups
    /\ UNCHANGED <<registers, clipboard, ops, last, element, encoded>>

Next == GenerateMatrix \/ EvaluateEquation \/ SubmitSize \/ Dismiss \/ TimerFire

Spec == Init /\ [][Next]_vars

\* ------------------------------------------------------------ the claims
\* what the last handler invocation put on the queue
HasMsg(t) == \E k \in 1..Len(last.msgs) : last.msgs[k].type = t

\* the directive as the specification reads it: the text before and after
\* the FIRST "reg"
LeftOfReg(eq) ==
    IF Contains(eq, S_reg) THEN SubSeq(eq, 1, Find(eq, S_reg) - 1) ELSE eq
RightOfReg(eq) ==
    IF Contains(eq, S_reg) THEN SubSeq(eq, Find(eq, S_reg) + 3, Len(eq)) ELSE <<>>
\* the target register the directive names, NoReg when it names none
Target(eq) ==
    LET cand == Replace(Upper(RightOfReg(eq)), " ", <<>>)
    IN IF Len(cand) = 1 /\ cand[1] \in RegisterNames THEN cand[1] ELSE NoReg

\* the expression names a register that held None before the call
RefsUnset(eq, regs) ==
    \E n \in RegisterNames :
        regs[n] = NoneVal /\ Contains(LeftOfReg(eq), <<n>>)

IsIdentity(v) ==
    /\ v.kind = "ndarray"
    /\ Len(v.shape) = 2
    /\ v.shape[1] = v.shape[2]
    /\ v.data = Eye(v.shape[1]).data

E_A0regB == <<"A", "[", "0", "]", "r", "e", "g", " ", "B">>
E_AplusAregB == <<"A", "+", "A", "r", "e", "g", " ", "B">>
E_sqrt4rega == <<"s", "q", "r", "t", "4", " ", "r", "e", "g", " ", "a">>
T_1div2div3 == <<"1", "d", "i", "v", "2", "d", "i", "v", "3">>
T_div2 == <<"d", "i", "v", "2">>
M_2 == Array("Matrix", <<1, 1>>, <<2>>)
M_4 == Array("Matrix", <<1, 1>>, <<4>>)

\* C1 (as claimed): whenever evaluate_equation reports "Invalid Equation",
\* every register holds the value it held before the call.
C1_FailedEvaluationMutatesNothing ==
    (last.op = "evaluate" /\ HasMsg("InvalidEquation")) => registers = last.pre

\* C2 (as claimed): an expression that references an unset register ends in
\* "Invalid Equation" with no "Result", and leaves all registers unchanged.
C2_UnsetRegisterFails ==
    (last.op = "evaluate" /\ RefsUnset(last.input, last.pre))
        => /\ HasMsg("InvalidEquation")
           /\ ~HasMsg("Result")
           /\ registers = last.pre

\* C3 (as claimed): in every reachable state register I holds a square
\* identity matrix.
C3_IdentityRegisterIsIdentity == IsIdentity(registers["I"])

\* C4 (as claimed): a queued message is shown with no further user
\* operation: while a message waits in the queue a popup is open (its
\* dismissal schedules the next display) or a display callback is pending.
C4_QueuedMessageHasDisplayPending ==
    message_queue # <<>> => (popups # <<>> \/ timers > 0)

\* C5 (as claimed): every failing generate_matrix or evaluate_equation call
\* puts an error message on the queue and returns normally.
C5_FailuresAreReported ==
    (last.op \in {"generate", "evaluate"} /\ last.outcome # "ok")
        => /\ last.outcome # "raised"
           /\ \/ HasMsg("ValidIntegers")
              \/ HasMsg("Mismatch")
              \/ HasMsg("InvalidRegister")
              \/ HasMsg("InvalidEquation")

\* the encoder's contract as the specification words it: the sqrt rewrite,
\* then a split on the FIRST div into two non-empty parts, each encoded
DivCount(el) == Cardinality({i \in 1..Len(el) : StartsAt(el, S_div, i)})
BeforeDiv(el) == SubSeq(el, 1, Find(el, S_div) - 1)
AfterDiv(el) == SubSeq(el, Find(el, S_div) + 3, Len(el))
RECURSIVE encode_cell(_)
encode_cell(el) ==
    LET e1 == ReSubSqrt(el)
    IN IF Contains(e1, S_div) /\ BeforeDiv(e1) # <<>> /\ AfterDiv(e1) # <<>>
       THEN S_DIV \o encode_cell(BeforeDiv(e1)) \o <<";">>
                \o encode_cell(AfterDiv(e1)) \o <<"}">>
       ELSE e1
EmptyDivSide(el) ==
    Contains(el, S_div) /\ (BeforeDiv(el) = <<>> \/ AfterDiv(el) = <<>>)

C7_EmptyOperandSkipsDiv ==
    (encoded # NotEncoded /\ EmptyDivSide(element))
        => /\ encoded = ReSubSqrt(element)
           /\ ~Contains(encoded, S_DIV \o <<";">>)
           /\ ~Contains(encoded, <<";", "}">>)

\* C7 (amended): an empty part does not stop the rewrite: a token with
\* exactly one div becomes @DIV{left;right} even when left or right is
\* empty (div2 gives @DIV{;2}); only a token with two or more div is
\* returned as the sqrt-rewritten token.
C7_EmptyOperandStillRewritten ==
    (encoded # NotEncoded /\ EmptyDivSide(element))
        => IF DivCount(element) = 1
           THEN encoded = S_DIV \o ReSubSqrt(BeforeDiv(element)) \o <<";">>
                              \o ReSubSqrt(AfterDiv(element)) \o <<"}">>
           ELSE encoded = ReSubSqrt(element)

\* C7 witness: format_element was applied to div2 and returned @DIV{;2}
C7_Witness == element = T_div2 /\ encoded = S_DIV \o <<";", "2", "}">>

\* C8: with a directive naming a register of the fixed set and a left part
\* that evaluates, the target holds the computed value afterwards and every
\* other register is unchanged.
C8_ValidDirectiveStoresResult ==
    (/\ last.op = "evaluate"
     /\ Target(last.input) # NoReg
     /\ ~IsError(Eval(Substitute(LeftOfReg(last.input)), last.pre)))
        => \A n \in RegisterNames :
              registers[n] =
                  IF n = Target(last.input)
                  THEN Eval(Substitute(LeftOfReg(last.input)), last.pre)
                  ELSE last.pre[n]

\* C8 witness: with A = [[2.]] and B unset, "A+Areg B" has stored [[4.]]
\* in B and left A alone
C8_Witness ==
    /\ last.op = "evaluate"
    /\ last.input = E_AplusAregB
    /\ last.pre["A"] = M_2
    /\ last.pre["B"] = NoneVal
    /\ registers["A"] = M_2
    /\ registers["B"] = M_4

\* C9 (as claimed): with a directive whose candidate name is outside the
\* fixed set, the call reports an invalid register, still evaluates the
\* left part and reports its outcome, and writes no register.
C9_InvalidDirectiveStillEvaluates ==
    (/\ last.op = "evaluate"
     /\ Contains(last.input, S_reg)
     /\ Target(last.input) = NoReg)
        => /\ HasMsg("InvalidRegister")
           /\ (HasMsg("Result") \/ HasMsg("InvalidEquation"))
           /\ registers = last.pre

\* C10: a generate_matrix call that does not succeed changes neither the
\* registers nor the clipboard, and enqueues at most its one error message.
C10_FailedGenerationChangesNothing ==
    (last.op = "generate" /\ last.outcome # "ok")
        => /\ registers = last.pre
           /\ clipboard = last.preclip
           /\ Len(last.msgs) <= 1

\* C10 witness: with A = [[2.]] stored and copied, "sqrt4 reg a" failed its
\* float conversion and A and the clipboard are as they were
C10_Witness ==
    /\ last.op = "generate"
    /\ last.outcome = "error"
    /\ last.input = E_sqrt4rega
    /\ HasMsg("ValidIntegers")
    /\ registers["A"] = M_2
    /\ clipboard # <<>>

====
